---- MODULE Spec2Model ----
(***************************************************************************)
(* sshp (src/sshp.js): a command is run over ssh on every host of a list,  *)
(* at most maxjobs at a time.  The dispatcher is the queue of the async    *)
(* library, created at src/sshp.js:184 (the queue of async 0.1/0.2, the    *)
(* releases current when sshp was written): push() appends a task and      *)
(* schedules one q.process() per task on the next tick; q.process() starts *)
(* one task when workers < concurrency; the callback handed to the worker  *)
(* decrements workers, fires q.drain when tasks.length + workers is 0 and  *)
(* calls q.process() again.                                                *)
(*                                                                         *)
(* Jobs are named by their position in the host list (1..N).  One action   *)
(* is one callback of the event loop, run to completion.                   *)
(***************************************************************************)
EXTENDS Integers, Sequences, FiniteSets, TLC

\* ------------------------------------------------------------------ bounds
MaxHosts == 3
MaxCap == 3
\* hosts in a run that follows the output in line mode, in the other modes
MaxLineHosts == 1
MaxOutHosts == 2
\* data events in a run that follows the output
MaxChunks == 2

\* ------------------------------------------------- inputs of the program
Hostnames == {"a", "b"}

\* the code delivered by a close event of a child killed by a signal (null)
NULL == -1
\* exit statuses a child can deliver: success, failure, 128, ssh's 255, null
Codes == {0, 1, 128, 255, NULL}

\* host lists: every sequence of host names of length 0..MaxHosts
HostLists == UNION {[1..n -> Hostnames] : n \in 0..MaxHosts}

\* -m maxjobs: maxjobs = +option.optarg, any number, never validated
CapValues == (-1)..MaxCap

VARIABLES
  hosts,      \* the host list (src/sshp.js:167)
  maxjobs,    \* the concurrency cap (src/sshp.js:122,137)
  dryrun,     \* -n (src/sshp.js:116,138)
  tasks,      \* q.tasks: the jobs pushed and not yet started
  workers,    \* the queue's count of workers running
  ticks,      \* q.process() calls scheduled by push() and not yet run
  child,      \* per job: "none", "running" (spawned), "closed"
  cbcount,    \* per job: how many times its completion callback ran
  codes,      \* per job: the code its close event delivered (NoCode: none)
  started,    \* the jobs in the order processhost was entered
  finished,   \* the jobs in the order their close event arrived
  i,          \* the counter of finished jobs printed by progress()
  exitcode,   \* the running sum of exit statuses
  drained,    \* how many times q.drain ran
  pc,         \* "running", "exited" (process ended), "crashed" (uncaught)
  exitarg,    \* the argument process.exit was called with (NoCode: never)
  exitstatus, \* the 8-bit exit status of the sshp process once it ended
  spawned,    \* how many transport processes were spawned
  peak,       \* the highest value workers ever took, inside handlers too
  nocommand,  \* the command list is empty (src/sshp.js:153)
  group,      \* -g (src/sshp.js:119,132)
  join,       \* -j (src/sshp.js:120,135)
  silent,     \* -s (src/sshp.js:126,142)
  output,     \* output[host]: the text accumulated per host key
  lasthost,   \* the host of the last header written (NoHost: undefined)
  written,    \* what was written to standard output and standard error
  linebuf,    \* per job and stream: the partial line LineReadStream holds
  ended,      \* per job and stream: the stream has ended
  arrived,    \* the data events so far, in the order they were handled
  summary     \* the groups the drain handler printed for -j, in order

\* the options, fixed for a run
config == <<hosts, maxjobs, dryrun, nocommand, group, join, silent>>

\* the state only the data handlers touch
outvars == <<output, lasthost, written, linebuf, ended, arrived>>

vars == <<hosts, maxjobs, dryrun, tasks, workers, ticks, child, cbcount,
          codes, started, finished, i, exitcode, drained, pc, exitarg,
          exitstatus, spawned, peak, nocommand, group, join, silent,
          output, lasthost, written, linebuf, ended, arrived, summary>>

\* lasthost before any header is written
NoHost == ""

Streams == {"stdout", "stderr"}

\* a job that has delivered no code yet
NoCode == -2

N == Len(hosts)
Jobs == 1..N

Min(a, b) == IF a < b THEN a ELSE b
Max(a, b) == IF a < b THEN b ELSE a

\* the mutable state as one record, so that a handler and everything it
\* calls is one function from state to state
State ==
  [tasks |-> tasks, workers |-> workers, child |-> child,
   cbcount |-> cbcount, codes |-> codes, started |-> started,
   finished |-> finished, i |-> i, exitcode |-> exitcode,
   drained |-> drained, pc |-> pc, exitarg |-> exitarg,
   exitstatus |-> exitstatus,
   spawned |-> spawned, peak |-> peak, summary |-> summary]

Commit(r) ==
  /\ tasks' = r.tasks
  /\ workers' = r.workers
  /\ child' = r.child
  /\ cbcount' = r.cbcount
  /\ codes' = r.codes
  /\ started' = r.started
  /\ finished' = r.finished
  /\ i' = r.i
  /\ exitcode' = r.exitcode
  /\ drained' = r.drained
  /\ pc' = r.pc
  /\ exitarg' = r.exitarg
  /\ exitstatus' = r.exitstatus
  /\ spawned' = r.spawned
  /\ peak' = r.peak
  /\ summary' = r.summary

\* ----------------------------------------------------------- pure helpers

\* exitcode += code: a null code converts to the number 0
ToNumber(code) == IF code = NULL THEN 0 ELSE code

AddCodeOr(sum, code) == IF sum # 0 \/ ToNumber(code) # 0 THEN 1 ELSE 0

\* src/sshp.js:299
AddCode(sum, code) == sum + ToNumber(code)

\* process.exit(n): the operating system keeps the low 8 bits
ExitStatusOf(n) == n % 256

\* ------------------------------------------------------------- the queue

CanStartOffByOne(st) == st.workers <= maxjobs /\ Len(st.tasks) > 0

\* q.process's guard: workers < q.concurrency && q.tasks.length
CanStart(st) == st.workers < maxjobs /\ Len(st.tasks) > 0

IsDrainedTasksOnly(st) == Len(st.tasks) = 0

\* the queue callback's test before q.drain(): tasks.length + workers === 0
IsDrained(st) == Len(st.tasks) + st.workers = 0

\* ------------------------------------------------- the summary of -j

\* Host names and texts are keys of JavaScript objects.  Object.keys lists
\* the keys that are array indices ("7", "11") first, in numeric order,
\* and then the other keys in the order they were added.
IndexHosts == {"7"}
HostIndexValue(h) == IF h = "7" THEN 7 ELSE 0

\* a text is a sequence of pieces; the piece "1" is the digit 1
IsIndexText(t) == t # <<>> /\ \A k \in 1..Len(t) : t[k] = "1"

RECURSIVE TextIndexValue(_)
TextIndexValue(t) ==
  IF t = <<>> THEN 0
  ELSE 10 * TextIndexValue(SubSeq(t, 1, Len(t) - 1)) + 1

\* a text that names a property every object inherits: diff[text] is then
\* not undefined although the text was never added
ProtoTexts == {<<"constructor">>}

\* pairs <<value, key>> as the sequence of keys in ascending value
RECURSIVE SortPairs(_)
SortPairs(S) ==
  IF S = {} THEN <<>>
  ELSE LET m == CHOOSE p \in S : \A q \in S : p[1] <= q[1]
       IN <<m[2]>> \o SortPairs(S \ {m})

\* the distinct elements of a sequence in the order of first appearance
RECURSIVE FirstSeen(_)
FirstSeen(seq) ==
  IF seq = <<>> THEN <<>>
  ELSE LET r == FirstSeen(SubSeq(seq, 1, Len(seq) - 1))
           x == seq[Len(seq)]
       IN IF \E k \in 1..Len(r) : r[k] = x THEN r ELSE Append(r, x)

NotIndexHost(h) == h \notin IndexHosts
NotIndexText(t) == ~IsIndexText(t)

OutputKeysReversed ==
  LET ins == FirstSeen(hosts)
      ks == SortPairs({<<HostIndexValue(ins[k]), ins[k]>> :
                         k \in {n \in 1..Len(ins) : ins[n] \in IndexHosts}})
            \o SelectSeq(ins, NotIndexHost)
  IN [k \in 1..Len(ks) |-> ks[Len(ks) + 1 - k]]

\* Object.keys(output) (src/sshp.js:201): output[host] = '' was set per
\* host in list order (src/sshp.js:191)
OutputKeys ==
  LET ins == FirstSeen(hosts)
  IN SortPairs({<<HostIndexValue(ins[k]), ins[k]>> :
                  k \in {n \in 1..Len(ins) : ins[n] \in IndexHosts}})
     \o SelectSeq(ins, NotIndexHost)

\* outputkeys.forEach (src/sshp.js:202-206): diff as the sequence of its
\* entries in the order they were added; diff[text].push throws when
\* diff[text] is an inherited property
RECURSIVE BuildDiff(_, _)
BuildDiff(ks, d) ==
  IF ks = <<>> \/ d.thrown THEN d
  ELSE LET h == Head(ks)
           text == output[h]
           at == {k \in 1..Len(d.entries) : d.entries[k].text = text}
       IN IF at # {}
            THEN LET k == CHOOSE n \in at : TRUE
                 IN BuildDiff(Tail(ks),
                      [d EXCEPT !.entries[k].hosts = Append(@, h)])
            ELSE IF text \in ProtoTexts
              THEN [d EXCEPT !.thrown = TRUE]
              ELSE BuildDiff(Tail(ks),
                     [d EXCEPT !.entries =
                        Append(@, [text |-> text, hosts |-> <<h>>])])

\* Object.keys(diff) (src/sshp.js:208) over the entries of diff
DiffKeys(entries) ==
  LET ins == [k \in 1..Len(entries) |-> entries[k].text]
  IN SortPairs({<<TextIndexValue(ins[k]), ins[k]>> :
                  k \in {n \in 1..Len(ins) : IsIndexText(ins[n])}})
     \o SelectSeq(ins, NotIndexText)

SummaryOfJobTotal(entries) ==
  LET keys == DiffKeys(entries)
      HostsOf(text) ==
        entries[CHOOSE k \in 1..Len(entries) : entries[k].text = text].hosts
  IN [k \in 1..Len(keys) |->
        [hosts |-> HostsOf(keys[k]),
         count |-> Len(HostsOf(keys[k])),
         total |-> Len(hosts),
         text |-> keys[k]]]

\* keys.forEach (src/sshp.js:213-221): per text the hosts that have it,
\* their number, the number of host keys and the text
SummaryOf(entries) ==
  LET keys == DiffKeys(entries)
      HostsOf(text) ==
        entries[CHOOSE k \in 1..Len(entries) : entries[k].text = text].hosts
  IN [k \in 1..Len(keys) |->
        [hosts |-> HostsOf(keys[k]),
         count |-> Len(HostsOf(keys[k])),
         total |-> Len(OutputKeys),
         text |-> keys[k]]]

\* q.drain (src/sshp.js:194-226): with -j it prints the summary; it ends
\* in process.exit(exitcode), unless the summary throws
Drain(st) ==
  LET d == IF join /\ ~group
             THEN BuildDiff(OutputKeys, [entries |-> <<>>, thrown |-> FALSE])
             ELSE [entries |-> <<>>, thrown |-> FALSE]
  IN IF d.thrown
       THEN [st EXCEPT !.drained = @ + 1,
                       !.pc = "crashed",
                       !.exitstatus = 1]
       ELSE [st EXCEPT !.drained = @ + 1,
                       !.summary = IF join /\ ~group
                                     THEN SummaryOf(d.entries) ELSE @,
                       !.pc = "exited",
                       !.exitarg = st.exitcode,
                       !.exitstatus = ExitStatusOf(st.exitcode)]

RECURSIVE QProcess(_)
RECURSIVE QNext(_, _)
RECURSIVE processhost(_, _)

\* the callback the queue hands to the worker of job j
QNext(st, j) ==
  LET s1 == [st EXCEPT !.workers = @ - 1, !.cbcount[j] = @ + 1]
  IN IF IsDrained(s1) THEN Drain(s1) ELSE QProcess(s1)

processhostNoDryRun(st, j) ==
  LET s1 == [st EXCEPT !.started = Append(@, j)]
  IN [s1 EXCEPT !.child[j] = "running", !.spawned = @ + 1]

\* processhost (src/sshp.js:236-312) up to the return: a dry run calls cb()
\* at once, otherwise the transport is spawned and its handlers registered
processhost(st, j) ==
  LET s1 == [st EXCEPT !.started = Append(@, j)]
  IN IF dryrun
       THEN QNext(s1, j)
       ELSE [s1 EXCEPT !.child[j] = "running", !.spawned = @ + 1]

QProcessLifo(st) ==
  IF CanStart(st)
    THEN LET j == st.tasks[Len(st.tasks)]
             s1 == [st EXCEPT !.tasks = SubSeq(@, 1, Len(@) - 1),
                              !.workers = @ + 1,
                              !.peak = Max(@, st.workers + 1)]
         IN processhost(s1, j)
    ELSE st

\* q.process(): start the task at the head when a slot is free
QProcess(st) ==
  IF CanStart(st)
    THEN LET j == Head(st.tasks)
             s1 == [st EXCEPT !.tasks = Tail(@),
                              !.workers = @ + 1,
                              !.peak = Max(@, st.workers + 1)]
         IN processhost(s1, j)
    ELSE st

OnCloseNoCount(st, j, code) ==
  QNext([st EXCEPT !.exitcode = AddCode(@, code),
                   !.child[j] = "closed",
                   !.codes[j] = code,
                   !.finished = Append(@, j)], j)

QNextNoRefill(st, j) ==
  LET s1 == [st EXCEPT !.workers = @ - 1, !.cbcount[j] = @ + 1]
  IN IF IsDrained(s1) THEN Drain(s1) ELSE s1

OnCloseNoRefill(st, j, code) ==
  QNextNoRefill([st EXCEPT !.i = @ + 1,
                           !.exitcode = AddCode(@, code),
                           !.child[j] = "closed",
                           !.codes[j] = code,
                           !.finished = Append(@, j)], j)

OnCloseNoCallback(st, j, code) ==
  [st EXCEPT !.i = @ + 1,
             !.exitcode = AddCode(@, code),
             !.child[j] = "closed",
             !.codes[j] = code,
             !.finished = Append(@, j)]

\* child.on('close') (src/sshp.js:297-311): ++i; exitcode += code; cb()
OnClose(st, j, code) ==
  QNext([st EXCEPT !.i = @ + 1,
                   !.exitcode = AddCode(@, code),
                   !.child[j] = "closed",
                   !.codes[j] = code,
                   !.finished = Append(@, j)], j)

NaturalExitDrains(st) == Drain(st)

\* nothing is left to wait for and process.exit was never called: node
\* ends the process with status 0
NaturalExit(st) == [st EXCEPT !.pc = "exited", !.exitstatus = 0]

\* an 'error' event of a child with no 'error' listener is thrown: the
\* process dies of an uncaught exception with status 1
Uncaught(st) == [st EXCEPT !.pc = "crashed", !.exitstatus = 1]

\* ------------------------------------------------------------ the output

NL == "\n"

\* the chunks a data event can carry, per mode: text is a sequence of
\* characters
LineChunks == {<<"x">>, <<NL>>, <<"x", NL, NL, "x">>}
GroupChunks == {<<"x">>, <<"y">>}
JoinChunks == {<<"x">>, <<"y">>, <<"1">>, <<"constructor">>}
Chunks ==
  IF group THEN GroupChunks ELSE IF join THEN JoinChunks ELSE LineChunks

\* exit statuses delivered in the runs that follow the output
OutCodes == {1}

\* what the data handlers read and write
Out == [output |-> output, lasthost |-> lasthost, written |-> written]

CommitOut(o) ==
  /\ output' = o.output
  /\ lasthost' = o.lasthost
  /\ written' = o.written

\* one write: the channel, what it is, the job and host it is for, its text
Rec(chan, kind, j, text) ==
  [chan |-> chan, kind |-> kind, job |-> j, host |-> hosts[j], text |-> text]

\* ll.LineReadStream on a data event: the partial line held so far followed
\* by the chunk, cut after every newline; lines keep their newline and the
\* unterminated rest is held back
RECURSIVE LRSFeed(_, _, _)
LRSFeed(chunk, cur, acc) ==
  IF chunk = <<>>
    THEN [lines |-> acc, rest |-> cur]
    ELSE IF Head(chunk) = NL
      THEN LRSFeed(Tail(chunk), <<>>, Append(acc, Append(cur, NL)))
      ELSE LRSFeed(Tail(chunk), Append(cur, Head(chunk)), acc)

\* ll.LineReadStream when the stream ends: the rest, when not empty
LRSEnd(buf) == IF buf = <<>> THEN <<>> ELSE <<buf>>

\* ll.chomp: the line without its trailing newline
chomp(line) ==
  IF Len(line) > 0 /\ line[Len(line)] = NL
    THEN SubSeq(line, 1, Len(line) - 1)
    ELSE line

outNoChomp(o, j, d) ==
  IF silent THEN o
  ELSE [o EXCEPT !.written = Append(@, Rec("stdout", "line", j, d))]

outJoinOverwrite(o, j, d) ==
  IF silent THEN o
  ELSE IF group
    THEN LET o1 == IF hosts[j] # o.lasthost
                     THEN [o EXCEPT
                             !.written = Append(@, Rec("stdout", "header",
                                                       j, <<>>)),
                             !.lasthost = hosts[j]]
                     ELSE o
         IN [o1 EXCEPT !.written = Append(@, Rec("stdout", "chunk", j, d))]
  ELSE IF join
    THEN [o EXCEPT !.output[hosts[j]] = d]
  ELSE [o EXCEPT !.written = Append(@, Rec("stdout", "line", j, chomp(d)))]

\* out (src/sshp.js:251-268)
out(o, j, d) ==
  IF silent THEN o
  ELSE IF group
    THEN LET o1 == IF hosts[j] # o.lasthost
                     THEN [o EXCEPT
                             !.written = Append(@, Rec("stdout", "header",
                                                       j, <<>>)),
                             !.lasthost = hosts[j]]
                     ELSE o
         IN [o1 EXCEPT !.written = Append(@, Rec("stdout", "chunk", j, d))]
  ELSE IF join
    THEN [o EXCEPT !.output[hosts[j]] = @ \o d]
  ELSE [o EXCEPT !.written = Append(@, Rec("stdout", "line", j, chomp(d)))]

errNoLasthost(o, j, d) ==
  IF silent THEN o
  ELSE IF group
    THEN LET o1 == IF hosts[j] # o.lasthost
                     THEN [o EXCEPT
                             !.written = Append(@, Rec("stdout", "header",
                                                       j, <<>>))]
                     ELSE o
         IN [o1 EXCEPT !.written = Append(@, Rec("stderr", "chunk", j, d))]
  ELSE IF join
    THEN [o EXCEPT !.output[hosts[j]] = @ \o d]
  ELSE [o EXCEPT !.written = Append(@, Rec("stderr", "line", j, chomp(d)))]

\* err (src/sshp.js:277-294)
err(o, j, d) ==
  IF silent THEN o
  ELSE IF group
    THEN LET o1 == IF hosts[j] # o.lasthost
                     THEN [o EXCEPT
                             !.written = Append(@, Rec("stdout", "header",
                                                       j, <<>>)),
                             !.lasthost = hosts[j]]
                     ELSE o
         IN [o1 EXCEPT !.written = Append(@, Rec("stderr", "chunk", j, d))]
  ELSE IF join
    THEN [o EXCEPT !.output[hosts[j]] = @ \o d]
  ELSE [o EXCEPT !.written = Append(@, Rec("stderr", "line", j, chomp(d)))]

\* the listener hooked to stream s of job j (src/sshp.js:245-250,271-276)
Listener(o, j, s, d) == IF s = "stdout" THEN out(o, j, d) ELSE err(o, j, d)

\* the 'line' events of one call of LineReadStream, in order
RECURSIVE EmitLines(_, _, _, _)
EmitLines(o, j, s, lines) ==
  IF lines = <<>> THEN o
  ELSE EmitLines(Listener(o, j, s, Head(lines)), j, s, Tail(lines))

\* ------------------------------------------------------------------ Init

ConfigErrorNoJoinSilent == nocommand \/ (group /\ join)

\* the configuration checks (src/sshp.js:153-163): each ends in
\* process.exit(1) before the hosts are read or the queue is made
ConfigError == nocommand \/ (group /\ join) \/ (join /\ silent)

\* the host lists the configuration checks are tried with
ConfigHostLists == {<<>>, <<"a">>, <<"a", "b">>}

\* the state once the script has run to its end: with a configuration
\* error the process has exited with 1; otherwise hosts.forEach(...
\* q.push(host)) (src/sshp.js:190-193) has run, every job is in q.tasks
\* and one q.process() per job is scheduled

Setup ==
  /\ tasks = IF ConfigError THEN <<>> ELSE [k \in 1..Len(hosts) |-> k]
  /\ ticks = IF ConfigError THEN 0 ELSE Len(hosts)
  /\ pc = IF ConfigError THEN "exited" ELSE "running"
  /\ exitarg = IF ConfigError THEN 1 ELSE NoCode
  /\ exitstatus = IF ConfigError THEN 1 ELSE 0
  /\ workers = 0
  /\ child = [j \in 1..Len(hosts) |-> "none"]
  /\ cbcount = [j \in 1..Len(hosts) |-> 0]
  /\ codes = [j \in 1..Len(hosts) |-> NoCode]
  /\ started = <<>>
  /\ finished = <<>>
  /\ i = 0
  /\ exitcode = 0
  /\ drained = 0
  /\ spawned = 0
  /\ peak = 0
  /\ output = [h \in {hosts[k] : k \in 1..Len(hosts)} |-> <<>>]
  /\ lasthost = NoHost
  /\ written = <<>>
  /\ linebuf = [j \in 1..Len(hosts) |-> [s \in Streams |-> <<>>]]
  /\ ended = [j \in 1..Len(hosts) |-> [s \in Streams |-> FALSE]]
  /\ arrived = <<>>
  /\ summary = <<>>

\* a run in the default (line) mode with a command, over every host list,
\* cap and dry-run setting
Init ==
  /\ hosts \in HostLists
  /\ maxjobs \in CapValues
  /\ dryrun \in BOOLEAN
  /\ nocommand = FALSE
  /\ group = FALSE
  /\ join = FALSE
  /\ silent = FALSE
  /\ Setup

\* host lists and caps of the runs that follow the output
OutHostLists == UNION {[1..n -> Hostnames] : n \in 0..MaxOutHosts}
OutCaps == {1, 2}

LineHostLists == UNION {[1..n -> Hostnames] : n \in 0..MaxLineHosts}

\* a run in line mode
InitLine ==
  /\ hosts \in LineHostLists
  /\ maxjobs \in OutCaps
  /\ dryrun = FALSE
  /\ nocommand = FALSE
  /\ group = FALSE
  /\ join = FALSE
  /\ silent = FALSE
  /\ Setup

\* a run with -g
InitGroup ==
  /\ hosts \in OutHostLists
  /\ maxjobs \in OutCaps
  /\ dryrun = FALSE
  /\ nocommand = FALSE
  /\ group = TRUE
  /\ join = FALSE
  /\ silent \in BOOLEAN
  /\ Setup

\* host lists of the runs with -j: in the last one "7" is an array index
JoinHostLists == OutHostLists \cup {<<"a", "7">>}

\* a run with -j
InitJoin ==
  /\ hosts \in JoinHostLists
  /\ maxjobs \in OutCaps
  /\ dryrun = FALSE
  /\ nocommand = FALSE
  /\ group = FALSE
  /\ join = TRUE
  /\ silent = FALSE
  /\ Setup

\* every combination of the options the configuration checks look at
InitConfig ==
  /\ hosts \in ConfigHostLists
  /\ maxjobs \in CapValues
  /\ dryrun \in BOOLEAN
  /\ nocommand \in BOOLEAN
  /\ group \in BOOLEAN
  /\ join \in BOOLEAN
  /\ silent \in BOOLEAN
  /\ Setup

\* --------------------------------------------------------------- actions

\* a scheduled q.process() runs
Tick ==
  /\ pc = "running"
  /\ ticks > 0
  /\ ticks' = ticks - 1
  /\ Commit(QProcess(State))
  /\ UNCHANGED <<config, outvars>>

\* the close event of a running child arrives with some code
Close ==
  /\ pc = "running"
  /\ \E j \in Jobs, code \in Codes :
       /\ child[j] = "running"
       /\ Commit(OnClose(State, j, code))
  /\ UNCHANGED <<config, outvars, ticks>>

\* the transport could not be started: the child emits 'error', for which
\* processhost registers no listener
SpawnError ==
  /\ pc = "running"
  /\ \E j \in Jobs :
       /\ child[j] = "running"
       /\ Commit(Uncaught(State))
  /\ UNCHANGED <<config, outvars, ticks>>

\* the event loop has nothing left: no scheduled call, no child
EventLoopEmpty ==
  /\ pc = "running"
  /\ ticks = 0
  /\ \A j \in Jobs : child[j] # "running"
  /\ Commit(NaturalExit(State))
  /\ UNCHANGED <<config, outvars, ticks>>

\* a chunk arrives on a stream of a running child: -g and -j hand it to the
\* listener, line mode hands it to the stream's LineReadStream.  Events of
\* children are handled after the q.process() calls scheduled by the script
Data ==
  /\ pc = "running"
  /\ ticks = 0
  /\ Len(arrived) < MaxChunks
  /\ \E j \in Jobs, s \in Streams, d \in Chunks :
       /\ child[j] = "running"
       /\ ~ended[j][s]
       /\ arrived' = Append(arrived, [job |-> j, stream |-> s, data |-> d])
       /\ IF group \/ join
            THEN /\ CommitOut(Listener(Out, j, s, d))
                 /\ UNCHANGED linebuf
            ELSE LET r == LRSFeed(d, linebuf[j][s], <<>>)
                 IN /\ CommitOut(EmitLines(Out, j, s, r.lines))
                    /\ linebuf' = [linebuf EXCEPT ![j][s] = r.rest]
  /\ UNCHANGED <<config, ticks, ended>>
  /\ Commit(State)

\* a stream of a running child ends: in line mode its LineReadStream hands
\* over the partial line it holds
StreamEnd ==
  /\ pc = "running"
  /\ ticks = 0
  /\ \E j \in Jobs, s \in Streams :
       /\ child[j] = "running"
       /\ ~ended[j][s]
       /\ ended' = [ended EXCEPT ![j][s] = TRUE]
       /\ IF group \/ join
            THEN UNCHANGED <<output, lasthost, written, linebuf>>
            ELSE /\ CommitOut(EmitLines(Out, j, s, LRSEnd(linebuf[j][s])))
                 /\ linebuf' = [linebuf EXCEPT ![j][s] = <<>>]
  /\ UNCHANGED <<config, ticks, arrived>>
  /\ Commit(State)

\* the close event of a child, which follows the end of both its streams
CloseAfterEnd ==
  /\ pc = "running"
  /\ ticks = 0
  /\ \E j \in Jobs, code \in OutCodes :
       /\ child[j] = "running"
       /\ \A s \in Streams : ended[j][s]
       /\ Commit(OnClose(State, j, code))
  /\ UNCHANGED <<config, outvars, ticks>>

\* the close event of a child in the modes that hook no LineReadStream
CloseOut ==
  /\ pc = "running"
  /\ ticks = 0
  /\ \E j \in Jobs, code \in OutCodes :
       /\ child[j] = "running"
       /\ Commit(OnClose(State, j, code))
  /\ UNCHANGED <<config, outvars, ticks>>

Next == Tick \/ Close \/ SpawnError \/ EventLoopEmpty

Spec == Init /\ [][Next]_vars

\* the same program under the scheduling node guarantees: a scheduled
\* callback runs, a process that is running ends and its close event is
\* delivered, and the process ends once the event loop is empty
\* the program in line mode with the events of its children's streams
NextLine == Tick \/ Data \/ StreamEnd \/ CloseAfterEnd \/ EventLoopEmpty

SpecLine == InitLine /\ [][NextLine]_vars

\* the program with -g or -j and the data events of its children
NextChunk == Tick \/ Data \/ CloseOut \/ EventLoopEmpty

SpecGroup == InitGroup /\ [][NextChunk]_vars

SpecJoin == InitJoin /\ [][NextChunk]_vars

\* the same program started with any combination of options
SpecConfig == InitConfig /\ [][Next]_vars

SpecLive ==
  /\ Init
  /\ [][Next]_vars
  /\ WF_vars(Tick)
  /\ WF_vars(Close)
  /\ WF_vars(EventLoopEmpty)

\* ---------------------------------------------------------------- claims

\* the jobs whose worker has started and whose callback has not been called
Running == {j \in Jobs : (\E k \in 1..Len(started) : started[k] = j)
                         /\ cbcount[j] = 0}

AllCalledBack == \A j \in Jobs : cbcount[j] = 1

\* C1: with a cap of at least 1, the number of jobs started and not yet
\* called back never exceeds min(maxjobs, N), inside a handler either
C1_RunningBounded ==
  maxjobs >= 1 =>
    /\ Cardinality(Running) <= Min(maxjobs, N)
    /\ workers <= Min(maxjobs, N)
    /\ peak <= Min(maxjobs, N)

C1_Witness ==
  /\ maxjobs = 2
  /\ N = 3
  /\ ~dryrun
  /\ Cardinality(Running) = 2
  /\ Len(tasks) = 1

\* C2: drain runs at most once, only when every one of the N >= 1 jobs has
\* been called back and none is pending or running, and it has run as soon
\* as the last job has been called back
C2_DrainOnce ==
  /\ drained \in {0, 1}
  /\ drained = 1 =>
       /\ N >= 1
       /\ AllCalledBack
       /\ tasks = <<>>
       /\ workers = 0
       /\ Running = {}
  /\ (N >= 1 /\ \A j \in Jobs : cbcount[j] >= 1) => drained = 1

C2_Witness ==
  /\ drained = 1
  /\ N = 3
  /\ maxjobs = 2
  /\ ~dryrun
  /\ Len(finished) = 3

\* the statuses the close events delivered, added up as integers
RECURSIVE SumDelivered(_)
SumDelivered(k) ==
  IF k = 0 THEN 0
  ELSE (IF codes[k] \in {NoCode, NULL} THEN 0 ELSE codes[k])
       + SumDelivered(k - 1)

\* C3: when drain has run, the value passed to process.exit is the integer
\* sum of the statuses the close events delivered (a null status adding
\* nothing), whatever the order of completion
C3_ExitSum ==
  drained = 1 => /\ exitarg = SumDelivered(N)
                 /\ exitcode = SumDelivered(N)

C3_Witness ==
  /\ drained = 1
  /\ finished = <<3, 1, 2>>
  /\ codes = <<1, 128, 255>>
  /\ exitarg = 384

\* C4: the exit status of sshp is 0 only if every job exited 0
C4_ZeroOnlyIfAllZero ==
  (pc = "exited" /\ drained = 1 /\ ~dryrun /\ exitstatus = 0)
    => \A j \in Jobs : codes[j] = 0

\* C5 as stated: running + pending + i = N in every state of every mode
C5_Conservation == workers + Len(tasks) + i = N

\* C5: outside dry run, running + pending + i = N in every state; in a dry
\* run i stays 0 and running + pending + (jobs called back) = N
C5_ConservationNotDry ==
  /\ ~dryrun => workers + Len(tasks) + i = N
  /\ dryrun => /\ i = 0
               /\ workers + Len(tasks)
                    + Cardinality({j \in Jobs : cbcount[j] = 1}) = N

C5_Witness ==
  /\ ~dryrun
  /\ i = 1
  /\ workers = 1
  /\ Len(tasks) = 1

\* C6: a job's failure (non-zero status, or the transport failing to start)
\* never aborts the batch: a run with hosts and a positive cap ends only
\* through drain, with every host started and called back
C6_FailureNeverAborts ==
  (pc # "running" /\ N >= 1 /\ maxjobs >= 1) =>
    /\ drained = 1
    /\ Len(started) = N
    /\ AllCalledBack

\* C7: every job admitted has its completion callback called exactly once:
\* never twice, and once by the time the run has ended
C7_CallbackExactlyOnce ==
  \A j \in Jobs :
    /\ cbcount[j] <= 1
    /\ (pc # "running" /\ \E k \in 1..Len(started) : started[k] = j)
         => cbcount[j] = 1

\* C8: in a dry run with N >= 1 and a cap >= 1 no transport is ever
\* spawned, and the first q.process() call completes every job at once
\* with status 0, runs drain and exits 0
C8_DryRun ==
  (dryrun /\ N >= 1 /\ maxjobs >= 1) =>
    /\ spawned = 0
    /\ \A j \in Jobs : child[j] = "none"
    /\ exitcode = 0
    /\ ticks < N =>
         /\ AllCalledBack
         /\ Len(started) = N
         /\ drained = 1
         /\ pc = "exited"
         /\ exitarg = 0
         /\ exitstatus = 0

C8_Witness ==
  /\ dryrun
  /\ hosts = <<"a", "b">>
  /\ maxjobs = 1
  /\ drained = 1
  /\ pc = "exited"

\* C9 as stated: with no host the drain handler runs and the run exits 0
C9_EmptyDrains ==
  (N = 0 /\ pc = "exited") => (drained = 1 /\ exitstatus = 0)

\* C9: with no host no job is ever started and the drain handler never
\* runs; the run ends when the event loop is empty, with exit status 0
C9_EmptyNeverDrains ==
  N = 0 =>
    /\ drained = 0
    /\ started = <<>>
    /\ spawned = 0
    /\ exitarg = NoCode
    /\ pc # "crashed"
    /\ exitstatus = 0

C9_Witness == N = 0 /\ pc = "exited"

\* C10: a cap of zero or less is a configuration error: the run ends with
\* a non-zero exit status and no job is ever started
C10_CapRejected ==
  maxjobs <= 0 =>
    /\ started = <<>>
    /\ pc # "running" => exitstatus # 0

\* C17: jobs are started in the order of the host list: the jobs started
\* so far are always the first Len(started) positions, in order, whatever
\* the order in which running jobs complete
C17_FifoAdmission ==
  /\ \A k \in 1..Len(started) : started[k] = k
  /\ \A k \in 1..Len(tasks) : tasks[k] = Len(started) + k

C17_Witness ==
  /\ N = 3
  /\ maxjobs = 2
  /\ ~dryrun
  /\ finished = <<2>>
  /\ started = <<1, 2, 3>>

\* C18: with a cap >= 1, once the scheduled q.process() calls have run,
\* whenever the program waits for events with a host still pending exactly
\* maxjobs jobs are running, and a close event handled while a host is
\* pending starts the next pending host in the same handler
C18_WorkConserving ==
  /\ [](( /\ pc = "running"
          /\ maxjobs >= 1
          /\ ticks = 0
          /\ Len(tasks) > 0 ) => workers = maxjobs)
  /\ [][( /\ maxjobs >= 1
          /\ Len(tasks) > 0
          /\ Len(finished') = Len(finished) + 1 )
        => ( /\ Len(started') = Len(started) + 1
             /\ started'[Len(started')] = Head(tasks)
             /\ workers' = workers )]_vars

C18_Witness ==
  /\ N = 3
  /\ maxjobs = 1
  /\ ~dryrun
  /\ ticks = 0
  /\ finished = <<1>>
  /\ started = <<1, 2>>
  /\ Len(tasks) = 1
  /\ workers = 1

\* C19: with N >= 1 hosts and a cap >= 1, when every transport that runs
\* delivers its close event, every host is eventually started, drain runs
\* and the process ends with the summed exit code
C19_Liveness ==
  (N >= 1 /\ maxjobs >= 1) =>
    <>( /\ Len(started) = N
        /\ drained = 1
        /\ pc = "exited"
        /\ exitarg = exitcode )

\* C11: an empty command list, -g with -j, or -j with -s ends the program
\* with a non-zero exit code before any job is created, queued or started
C11_ConfigRejected ==
  (nocommand \/ (group /\ join) \/ (join /\ silent)) =>
    /\ pc = "exited"
    /\ exitstatus # 0
    /\ tasks = <<>>
    /\ ticks = 0
    /\ started = <<>>
    /\ spawned = 0
    /\ workers = 0
    /\ drained = 0
    /\ \A j \in Jobs : child[j] = "none" /\ cbcount[j] = 0

C11_Witness ==
  /\ join
  /\ silent
  /\ ~group
  /\ ~nocommand
  /\ hosts = <<"a", "b">>
  /\ maxjobs = 2
  /\ pc = "exited"

\* ------------------------------------------------- claims on the output

\* the text job j received on stream s: its chunks in arrival order
RECURSIVE StreamText(_, _, _)
StreamText(log, j, s) ==
  IF log = <<>> THEN <<>>
  ELSE LET e == log[Len(log)]
       IN StreamText(SubSeq(log, 1, Len(log) - 1), j, s)
          \o (IF e.job = j /\ e.stream = s THEN e.data ELSE <<>>)

\* the newline-delimited lines of a text, without their newline, followed
\* by the unterminated rest when the stream has ended and it is not empty
LinesOf(text, isEnded) ==
  LET nl == {k \in 1..Len(text) : text[k] = NL}
      PosOf(m) == CHOOSE p \in nl : Cardinality({q \in nl : q < p}) = m - 1
      StartOf(m) == IF m = 1 THEN 1 ELSE PosOf(m - 1) + 1
      last == IF nl = {} THEN 0 ELSE PosOf(Cardinality(nl))
      rest == SubSeq(text, last + 1, Len(text))
  IN [m \in 1..Cardinality(nl) |-> SubSeq(text, StartOf(m), PosOf(m) - 1)]
     \o (IF isEnded /\ rest # <<>> THEN <<rest>> ELSE <<>>)

\* what was written for job j on channel c, in order
WrittenFor(j, c) == SelectSeq(written, LAMBDA r : r.job = j /\ r.chan = c)

\* C12: in line mode, not silent, the records written for a job on a
\* channel are exactly the lines of the text the job received on the stream
\* of that name, in order, each once, the unterminated rest being written
\* when the stream ends, wherever the chunk boundaries fall
C12_LineRecords ==
  (~group /\ ~join /\ ~silent) =>
    \A j \in Jobs, s \in Streams :
      LET recs == WrittenFor(j, s)
      IN /\ [k \in 1..Len(recs) |-> recs[k].text]
              = LinesOf(StreamText(arrived, j, s), ended[j][s])
         /\ \A k \in 1..Len(recs) :
              recs[k].kind = "line" /\ recs[k].host = hosts[j]

C12_Witness ==
  /\ ~group /\ ~join /\ ~silent
  /\ N = 1
  /\ ended[1]["stdout"]
  /\ arrived = << [job |-> 1, stream |-> "stdout", data |-> <<"x">>],
                  [job |-> 1, stream |-> "stdout",
                   data |-> <<"x", NL, NL, "x">>] >>
  /\ [k \in 1..Len(written) |-> written[k].text]
       = << <<"x", "x">>, <<>>, <<"x">> >>

\* the positions of written that hold a chunk
ChunkPos == {k \in 1..Len(written) : written[k].kind = "chunk"}

\* C13: with -g a header is written right before a chunk exactly when no
\* chunk was written before or the chunk written last, on either channel,
\* was of another host; every header is followed by a chunk of its host and
\* the chunks are written unchanged, in arrival order
C13_GroupHeaders ==
  group =>
    /\ \A k \in ChunkPos :
         LET before == {m \in ChunkPos : m < k}
             lastc == CHOOSE m \in before : \A n \in before : n <= m
         IN (k > 1 /\ written[k - 1].kind = "header"
                   /\ written[k - 1].host = written[k].host)
            <=> (before = {} \/ written[lastc].host # written[k].host)
    /\ \A k \in 1..Len(written) :
         written[k].kind = "header" =>
           /\ k < Len(written)
           /\ written[k].chan = "stdout"
           /\ written[k + 1].kind = "chunk"
           /\ written[k + 1].host = written[k].host
    /\ ~silent =>
         LET cs == SelectSeq(written, LAMBDA r : r.kind = "chunk")
         IN /\ Len(cs) = Len(arrived)
            /\ \A k \in 1..Len(cs) :
                 /\ cs[k].text = arrived[k].data
                 /\ cs[k].job = arrived[k].job
                 /\ cs[k].chan = arrived[k].stream
    /\ silent => written = <<>>

C13_Witness ==
  /\ group /\ ~silent
  /\ hosts = <<"a", "b">>
  /\ Len(written) = 3
  /\ written[1].kind = "header"
  /\ written[2].kind = "chunk" /\ written[2].chan = "stdout"
  /\ written[3].kind = "chunk" /\ written[3].chan = "stderr"
  /\ written[3].host = "a"

\* the text received for host key h: the chunks of all its jobs and both
\* streams, in arrival order
RECURSIVE HostText(_, _)
HostText(log, h) ==
  IF log = <<>> THEN <<>>
  ELSE LET e == log[Len(log)]
       IN HostText(SubSeq(log, 1, Len(log) - 1), h)
          \o (IF hosts[e.job] = h THEN e.data ELSE <<>>)

IsPrefix(a, b) == Len(a) <= Len(b) /\ SubSeq(b, 1, Len(a)) = a

\* C14: with -j nothing is written while jobs run; every chunk is appended
\* to its host's entry, so the entry is always the chunks received for that
\* host in arrival order and only ever grows; the summary exists only once
\* the drain handler has run
C14_JoinAccumulates ==
  /\ [](join =>
         /\ written = <<>>
         /\ \A h \in DOMAIN output : output[h] = HostText(arrived, h)
         /\ summary # <<>> => (drained = 1 /\ pc = "exited"))
  /\ [][join => \A h \in DOMAIN output : IsPrefix(output[h], output'[h])]_vars

C14_Witness ==
  /\ join
  /\ N = 1
  /\ drained = 1
  /\ pc = "exited"
  /\ Len(arrived) = 2
  /\ arrived[1].stream = "stdout"
  /\ arrived[2].stream = "stderr"
  /\ output[hosts[1]] = <<"x", "y">>
  /\ Len(summary) = 1

\* the host keys of the accumulator and the groups that list host h
HostKeys == {hosts[k] : k \in 1..Len(hosts)}
GroupsOf(h) ==
  {k \in 1..Len(summary) :
     \E n \in 1..Len(summary[k].hosts) : summary[k].hosts[n] = h}

\* C15: once drain has run with -j the summary is printed and its groups
\* partition the hosts by accumulated text: every host is in exactly one
\* group, whose text is the host's text, and there is one group per text
C15_Partition ==
  (join /\ drained = 1) =>
    /\ pc = "exited"
    /\ \A h \in HostKeys :
         /\ Cardinality(GroupsOf(h)) = 1
         /\ \A k \in GroupsOf(h) : summary[k].text = output[h]
    /\ \A k, m \in 1..Len(summary) :
         summary[k].text = summary[m].text => k = m
    /\ Len(summary) = Cardinality({output[h] : h \in HostKeys})

\* when a text was first the accumulated text of some host: the number of
\* data events handled by then (0 for the empty text)
FirstProduced(t) ==
  CHOOSE p \in 0..Len(arrived) :
    /\ \E h \in HostKeys : HostText(SubSeq(arrived, 1, p), h) = t
    /\ \A q \in 0..(p - 1) :
         \A h \in HostKeys : HostText(SubSeq(arrived, 1, q), h) # t

\* C16 as stated: the groups are printed in the order in which their texts
\* were first produced during the run
C16_DiscoveryOrder ==
  (join /\ drained = 1 /\ pc = "exited") =>
    \A a, b \in 1..Len(summary) :
      a < b => FirstProduced(summary[a].text) <= FirstProduced(summary[b].text)

\* the place of a host among the keys of the accumulator: array-index
\* names first, by value, then the others by first position in the list
HostRank(h) ==
  IF h \in IndexHosts
    THEN HostIndexValue(h) - 1000
    ELSE CHOOSE k \in 1..Len(hosts) :
           hosts[k] = h /\ \A m \in 1..(k - 1) : hosts[m] # h

\* the first host, in that order, whose final text is t
FirstHostRank(t) ==
  LET hs == {h \in HostKeys : output[h] = t}
  IN HostRank(CHOOSE h \in hs : \A g \in hs : HostRank(h) <= HostRank(g))

\* C16: the groups are printed in the key order of the map built at drain:
\* array-index texts first, by value, then the other texts by the first
\* host, in the accumulator's key order, whose final text it is
C16_KeyOrder ==
  (join /\ drained = 1 /\ pc = "exited") =>
    \A a, b \in 1..Len(summary) :
      a < b =>
        LET ta == summary[a].text
            tb == summary[b].text
        IN \/ IsIndexText(ta) /\ ~IsIndexText(tb)
           \/ /\ IsIndexText(ta) /\ IsIndexText(tb)
              /\ Len(ta) < Len(tb)
           \/ /\ ~IsIndexText(ta) /\ ~IsIndexText(tb)
              /\ FirstHostRank(ta) < FirstHostRank(tb)

C16_Witness ==
  /\ join
  /\ hosts = <<"a", "b">>
  /\ drained = 1
  /\ pc = "exited"
  /\ Len(arrived) = 2
  /\ arrived[1].job = 2
  /\ arrived[2].job = 1
  /\ Len(summary) = 2
  /\ summary[1].hosts = <<"a">>
  /\ summary[1].text = <<"y">>
  /\ summary[2].text = <<"x">>

\* the jobs of host key h
JobsOf(h) == {j \in Jobs : hosts[j] = h}

\* C20: a host listed twice gets two jobs, each counted by the cap, by i
\* and by the exit sum, while with -j both append to the one entry of that
\* host, which the summary lists once, its total counting host keys
C20_DuplicateHosts ==
  join =>
    /\ DOMAIN output = HostKeys
    /\ \A h \in HostKeys :
         Len(output[h])
           = Cardinality({k \in 1..Len(arrived) : arrived[k].job \in JobsOf(h)})
    /\ workers = Cardinality({j \in Jobs : child[j] = "running"})
    /\ i = Cardinality({j \in Jobs : child[j] = "closed"})
    /\ exitcode = Cardinality({j \in Jobs : codes[j] = 1})
    /\ (drained = 1 /\ pc = "exited") =>
         /\ i = N
         /\ spawned = N
         /\ \A h \in HostKeys :
              /\ Cardinality(GroupsOf(h)) = 1
              /\ \A k \in GroupsOf(h) :
                   Cardinality({n \in 1..Len(summary[k].hosts) :
                                  summary[k].hosts[n] = h}) = 1
         /\ \A k \in 1..Len(summary) :
              /\ summary[k].total = Cardinality(HostKeys)
              /\ summary[k].count = Len(summary[k].hosts)

C20_Witness ==
  /\ join
  /\ hosts = <<"a", "a">>
  /\ maxjobs = 2
  /\ peak = 2
  /\ drained = 1
  /\ pc = "exited"
  /\ exitcode = 2
  /\ Len(arrived) = 2
  /\ arrived[1].job = 1
  /\ arrived[2].job = 2
  /\ output["a"] = <<"x", "y">>
  /\ summary = << [hosts |-> <<"a">>, count |-> 1, total |-> 1,
                   text |-> <<"x", "y">>] >>

====
